---- MODULE Spec2Model ----
(***************************************************************************)
(* Model of rss-reruns' FeedModifier (src/src/rssreruns/feedmodifier.py):  *)
(* the per-entry rerun metadata kept inside the feed document and the      *)
(* rebroadcast scheduler that selects entries, rewrites their publish      *)
(* dates and wraps around once every entry has been rebroadcast.           *)
(*                                                                         *)
(* A text is a record [fmt, t]: fmt names the textual format the text is   *)
(* written in and t the instant it denotes.  Documents are feeds whose     *)
(* entries all carry a publish date, as the loader's get_entry_pubdate     *)
(* requires.                                                               *)
(***************************************************************************)
EXTENDS Integers, Sequences, FiniteSets, TLC

\* ------------------------------------------------------------------ bounds
MaxEntries == 3
MaxCount == 4
MaxNameLen == 4
MaxQualLen == 2

\* Instants of the original publish dates, and the instant of a rebroadcast
\* (the clock's datetime.now, or the use_datetime a caller passes).
Dates == {1, 2}
Times == {8}

VARIABLES
    dialect,        \* "rss" (RSSFeedModifier) or "atom" (AtomFeedModifier)
    feed,           \* the entries of the document, in document order
    order,          \* text of <reruns:order>
    run_forever,    \* text of <reruns:run_forever>
    op,             \* the operation last called
    pc,             \* its position: idle, while, body, returned, raised
    num,            \* rebroadcast's argument num
    use_datetime,   \* rebroadcast's argument use_datetime
    remaining,      \* rebroadcast's local remaining
    reran,          \* rebroadcast's local list reran (indices into feed)
    pre,            \* history: feed as it was when the operation was called
    passes,         \* history: the passes of this call that broadcast entries
    ones,           \* history: results of the rebroadcast(1) calls since load
    queried,        \* the list the last _entries_to_rerun() call returned
    assigned,       \* history: the text last assigned to run_forever, and the
                    \* text stored before
    times,          \* history: how often each entry was broadcast since the
                    \* first load, less the smallest of these numbers
    seed_parent,    \* seeding: a metadata node, its children by tag
    seed_defaults,  \* seeding: a defaults map, a text or None by tag
    seeded,         \* seeding history: the node after each application so far
    nsmap,          \* names: the namespace map of the wrapped element
    with_prefix,    \* names: the wrapper's preferred prefix, or None
    element,        \* names: the children of the wrapped element, in order
    call,           \* names: the wrapper method last called and its outcome
    channel,        \* the channel (feed) element: title, build dates, metadata
    source,         \* history: the document the modifier was first loaded from
    file,           \* the document last written and not yet read back
    called,         \* history: channel, order, run_forever and file mode at the call
    path,           \* from_file: the file at the path given, if there is one
    feed_format,    \* from_file: the feed_format given, or None
    concrete_subclass   \* from_file: the class it constructed, or its error

\* the feed modifier and its scheduler
schedvars == <<dialect, feed, order, run_forever, op, pc, num, use_datetime,
               remaining, reran, pre, passes, ones, queried, assigned, times>>

\* a metadata node being seeded from a defaults map
seedvars == <<seed_parent, seed_defaults, seeded>>

\* an ElementWrapper and the subelement name it is indexed with
namevars == <<nsmap, with_prefix, element, call>>

\* the rest of the document, and the file it is written to
docvars == <<channel, source, file, called>>

\* a call of the factory method from_file
factoryvars == <<path, feed_format, concrete_subclass>>

vars == <<schedvars, seedvars, namevars, docvars, factoryvars>>

\* ------------------------------------------------------------------- texts
Absent == [fmt |-> "absent", t |-> 0]

SrcText(d) == [fmt |-> "src", t |-> d]

\* str.lower() on the texts the model stores
Lower(s) ==
    CASE s = "True" -> "true"
      [] s = "False" -> "false"
      [] OTHER -> s

\* mutant: the text is compared as it was given
Capitalize_verbatim(s) == s

\* str(forever).capitalize()
Capitalize(s) ==
    CASE s = "true" -> "True"
      [] s = "TRUE" -> "True"
      [] s = "false" -> "False"
      [] s = "FALSE" -> "False"
      [] s = "yes" -> "Yes"
      [] OTHER -> s

\* dateutil's parser.parse: the instant a date text denotes
parse(text) == text.t

RSS_format_datetime(date) == [fmt |-> "rfc822", t |-> date]

Atom_format_datetime(date) == [fmt |-> "rfc3339", t |-> date]

format_datetime(d, date) ==
    IF d = "rss" THEN RSS_format_datetime(date) ELSE Atom_format_datetime(date)

\* --------------------------------------------------------------- sequences
Range(s) == {s[i] : i \in 1..Len(s)}

NoDup(s) == \A i, j \in 1..Len(s) : i # j => s[i] # s[j]

Occurrences(s, x) == Cardinality({i \in 1..Len(s) : s[i] = x})

Perms(s) ==
    {p \in [1..Len(s) -> Range(s)] : \A x \in Range(s) : \E i \in 1..Len(s) : p[i] = x}

\* An element's text: None (<tag/>), or a string given as a sequence of
\* pieces ("" is the string of no piece)
NoText == [none |-> TRUE, s |-> << >>]

Str(s) == [none |-> FALSE, s |-> s]

\* ----------------------------------------------------------- from_file
\* Strings that are searched are sequences of characters.
\* c.lower() for the letters in use
lower_char(c) ==
    CASE c = "R" -> "r"
      [] c = "S" -> "s"
      [] OTHER -> c

\* str.lower()
str_lower(str) == [i \in 1..Len(str) |-> lower_char(str[i])]

\* sub in str
substring_in(sub, str) ==
    \E k \in 0..(Len(str) - Len(sub)) : SubSeq(str, k + 1, k + Len(sub)) = sub

\* no value: the argument left at None, the file that cannot be parsed
NoValue == [none |-> TRUE, s |-> << >>]

Given(str) == [none |-> FALSE, s |-> str]

\* the feed_format arguments: None, "rss", "RSS", "atom", "xml"
FeedFormats ==
    {NoValue, Given(<<"r", "s", "s">>), Given(<<"R", "S", "S">>),
     Given(<<"a", "t", "o", "m">>), Given(<<"x", "m", "l">>)}

\* path.suffixes: none, .xml, .rss, .RSS, .atom, .rss.xml, .atom.rss
SuffixLists ==
    {<< >>, <<<<".", "x", "m", "l">>>>,
     <<<<".", "r", "s", "s">>>>, <<<<".", "R", "S", "S">>>>,
     <<<<".", "a", "t", "o", "m">>>>,
     <<<<".", "r", "s", "s">>, <<".", "x", "m", "l">>>>,
     <<<<".", "a", "t", "o", "m">>, <<".", "r", "s", "s">>>>}

\* root.tag of the file: rss, RSS, feed, {a}feed, html (x), feedx,
\* {rss}feed, or no root at all (not an XML document)
RootTags ==
    {Given(<<"r", "s", "s">>), Given(<<"R", "S", "S">>),
     Given(<<"f", "e", "e", "d">>),
     Given(<<"{", "a", "}", "f", "e", "e", "d">>),
     Given(<<"x">>),
     Given(<<"f", "e", "e", "d", "x">>),
     Given(<<"{", "r", "s", "s", "}", "f", "e", "e", "d">>),
     NoValue}

\* what is at a path: a file with suffixes and a root element, or no file
Paths ==
    {[is_file |-> TRUE, suffixes |-> sx, root |-> tag] :
        sx \in SuffixLists, tag \in RootTags}
    \cup {[is_file |-> FALSE, suffixes |-> sx, root |-> NoValue] : sx \in SuffixLists}

NoOutcome == [error |-> "", class |-> "none"]

Raised(exception) == [error |-> exception, class |-> "none"]

Class(name) == [error |-> "", class |-> name]

\* [suffix.lower() for suffix in path.suffixes]
lower_suffixes(p) == {str_lower(p.suffixes[i]) : i \in 1..Len(p.suffixes)}

\* _infer_format(path)
infer_format(p) ==
    IF ~p.is_file THEN Raised("ValueError")
    ELSE IF <<".", "r", "s", "s">> \in lower_suffixes(p) THEN Class("RSSFeedModifier")
    ELSE IF <<".", "a", "t", "o", "m">> \in lower_suffixes(p) THEN Class("AtomFeedModifier")
    ELSE IF p.root = NoValue THEN Raised("XMLSyntaxError")
    ELSE IF substring_in(<<"r", "s", "s">>, str_lower(p.root.s))
         THEN Class("RSSFeedModifier")
    ELSE IF substring_in(<<"f", "e", "e", "d">>, str_lower(p.root.s))
         THEN Class("AtomFeedModifier")
    ELSE Raised("ValueError")

\* concrete_subclass(path): ET.parse(path) in __init__
construct(class, p) ==
    IF ~p.is_file THEN Raised("OSError")
    ELSE IF p.root = NoValue THEN Raised("XMLSyntaxError")
    ELSE Class(class)

\* from_file(path, feed_format)
from_file(p, format) ==
    LET chosen == IF format # NoValue
                  THEN Class(IF substring_in(<<"r", "s", "s">>, str_lower(format.s))
                             THEN "RSSFeedModifier" ELSE "AtomFeedModifier")
                  ELSE infer_format(p)
    IN IF chosen.error # "" THEN chosen ELSE construct(chosen.class, p)

\* no from_file call is under study
NoFactory ==
    /\ path = [is_file |-> FALSE, suffixes |-> << >>, root |-> NoValue]
    /\ feed_format = NoValue
    /\ concrete_subclass = NoOutcome

\* ------------------------------------------------------- metadata store
\* A metadata node with no child yet
EmptyMeta == [k \in {} |-> Absent]

\* mutant: parent[tag].text = parent[tag].text or text
create_defaults_or_text(parent, defaults) ==
    [k \in (DOMAIN parent) \cup (DOMAIN defaults) |->
        IF k \in DOMAIN parent /\ (k \notin DOMAIN defaults \/ parent[k] \notin {NoText, Str(<< >>)})
        THEN parent[k] ELSE defaults[k]]

\* mutant: a missing subelement is created without text, and a subelement
\* without text is given the default text
create_defaults_in_two_steps(parent, defaults) ==
    [k \in (DOMAIN parent) \cup (DOMAIN defaults) |->
        IF k \notin DOMAIN parent THEN NoText
        ELSE IF k \in DOMAIN defaults /\ parent[k] = NoText THEN defaults[k]
        ELSE parent[k]]

\* Create subelements with given text only if the subelement does not exist.
create_defaults_if_missing(parent, defaults) ==
    [k \in (DOMAIN parent) \cup (DOMAIN defaults) |->
        IF k \in DOMAIN parent THEN parent[k] ELSE defaults[k]]

\* --------------------------------------------------------- dialect hooks
RSS_get_entry_pubdate(entry) == entry.pubDate

Atom_get_entry_pubdate(entry) ==
    IF entry.updated # Absent THEN entry.updated ELSE entry.published

get_entry_pubdate(d, entry) ==
    IF d = "rss" THEN RSS_get_entry_pubdate(entry) ELSE Atom_get_entry_pubdate(entry)

\* mutant: only the updated element is rewritten
Atom_update_entry_pubdate_updated_only(entry, date) ==
    [entry EXCEPT !.updated = Atom_format_datetime(date)]

RSS_update_entry_pubdate(entry, date) ==
    [entry EXCEPT !.pubDate = RSS_format_datetime(date)]

Atom_update_entry_pubdate(entry, date) ==
    [entry EXCEPT !.published = Atom_format_datetime(date),
                  !.updated = Atom_format_datetime(date)]

update_entry_pubdate(d, entry, date) ==
    IF d = "rss" THEN RSS_update_entry_pubdate(entry, date)
    ELSE Atom_update_entry_pubdate(entry, date)

\* ------------------------------------------------------------ scheduler
\* feed_entries(): the entries of the document, as indices in document order
feed_entries(fd) == [i \in 1..Len(fd) |-> i]

\* mutant: the feed is taken to run forever whatever the stored text
run_forever_get_any(text) == TRUE

\* the run_forever getter
run_forever_get(text) == Lower(text) = "true"

\* the comprehension of _entries_to_rerun: entries whose reran text is "false"
not_reran(fd) ==
    LET F[i \in 0..Len(fd)] ==
            IF i = 0 THEN << >>
            ELSE IF Lower(fd[i].entry_data.reran) = "false"
                 THEN Append(F[i - 1], i)
                 ELSE F[i - 1]
    IN F[Len(fd)]

\* mutant: the flag is written in lower case
mark_all_not_reran_lower(fd) ==
    [i \in 1..Len(fd) |-> [fd[i] EXCEPT !.entry_data.reran = "false"]]

\* mutant: only the first entry is marked
mark_all_not_reran_first(fd) ==
    [i \in 1..Len(fd) |-> IF i = 1 THEN [fd[i] EXCEPT !.entry_data.reran = "False"]
                                   ELSE fd[i]]

mark_all_not_reran(fd) ==
    [i \in 1..Len(fd) |-> [fd[i] EXCEPT !.entry_data.reran = "False"]]

\* mutant: after marking, the stale (empty) list is returned
entries_to_rerun_stale(fd, forever) ==
    IF Len(not_reran(fd)) = 0 /\ run_forever_get(forever)
    THEN [entries |-> not_reran(fd), feed |-> mark_all_not_reran(fd), reset |-> TRUE]
    ELSE [entries |-> not_reran(fd), feed |-> fd, reset |-> FALSE]

\* mutant: all entries are returned, but none is marked as not reran
entries_to_rerun_unmarked(fd, forever) ==
    IF Len(not_reran(fd)) = 0 /\ run_forever_get(forever)
    THEN [entries |-> feed_entries(fd), feed |-> fd, reset |-> TRUE]
    ELSE [entries |-> not_reran(fd), feed |-> fd, reset |-> FALSE]

\* mutant: the flags are reset while one entry is still eligible
entries_to_rerun_early(fd, forever) ==
    IF Len(not_reran(fd)) <= 1 /\ run_forever_get(forever)
    THEN [entries |-> feed_entries(fd), feed |-> mark_all_not_reran(fd), reset |-> TRUE]
    ELSE [entries |-> not_reran(fd), feed |-> fd, reset |-> FALSE]

\* _entries_to_rerun: the list it returns, the document it leaves, and
\* whether it marked all entries as not reran
entries_to_rerun(fd, forever) ==
    IF Len(not_reran(fd)) = 0 /\ run_forever_get(forever)
    THEN [entries |-> feed_entries(fd), feed |-> mark_all_not_reran(fd), reset |-> TRUE]
    ELSE [entries |-> not_reran(fd), feed |-> fd, reset |-> FALSE]

\* get_entry_original_pubdate: the parsed original_pubdate (its text is
\* never None here, every entry of the document carrying a publish date)
get_entry_original_pubdate(fd, i) == parse(fd[i].entry_data.original_pubdate)

\* mutant: the list is turned round, not sorted
sort_entries_reversed(fd, entries) ==
    [k \in 1..Len(entries) |-> entries[Len(entries) + 1 - k]]

\* mutant: the list is left in document order
sort_entries_unsorted(fd, entries) == entries

\* entries.sort(key=self.get_entry_original_pubdate): a stable ascending sort
RECURSIVE sort_entries(_, _)
sort_entries(fd, entries) ==
    IF entries = << >> THEN << >>
    ELSE LET key(k) == get_entry_original_pubdate(fd, entries[k])
             m == CHOOSE k \in 1..Len(entries) :
                      \A j \in 1..Len(entries) :
                          key(k) < key(j) \/ (key(k) = key(j) /\ k <= j)
         IN <<entries[m]>> \o
            sort_entries(fd, SubSeq(entries, 1, m - 1) \o SubSeq(entries, m + 1, Len(entries)))

\* mutant: entries drawn with replacement
shuffle_replacing(entries) == [1..Len(entries) -> Range(entries)]

\* random.shuffle(entries): any arrangement of the list
shuffle(entries) == Perms(entries)

\* the arrangements the else branch of rebroadcast may select from
arrange(fd, entries, ord) ==
    IF Lower(ord) = "chronological" THEN {sort_entries(fd, entries)} ELSE shuffle(entries)

\* mutant: the else branch broadcasts the whole list
batches_whole(fd, entries, rem, ord) ==
    IF rem >= Len(entries) THEN {entries} ELSE arrange(fd, entries, ord)

\* the entries one pass of rebroadcast's loop broadcasts, in broadcast order
batches(fd, entries, rem, ord) ==
    IF rem >= Len(entries) THEN {entries}
    ELSE {SubSeq(a, 1, rem) : a \in arrange(fd, entries, ord)}

\* mutant: the loop stops after its first pass
next_remaining_stop(rem, entries) == 0

\* mutant: remaining is decremented by one, not by the size of the pass
next_remaining_dec(rem, entries) ==
    IF rem >= Len(entries) THEN rem - 1 ELSE 0

\* remaining after the pass
next_remaining(rem, entries) ==
    IF rem >= Len(entries) THEN rem - Len(entries) ELSE 0

\* the datetime _rebroadcast_entry uses: now, the datetime given, or the
\* parsed text given
NoneDt == [kind |-> "none", text |-> Absent]

entry_datetimes(u) ==
    IF u.kind = "none" THEN Times
    ELSE IF u.kind = "datetime" THEN {u.text.t}
    ELSE {parse(u.text)}

\* mutant: the reran flag is not set
rebroadcast_entry_noflag(d, entry, dt) == update_entry_pubdate(d, entry, dt)

rebroadcast_entry(d, entry, dt) ==
    [update_entry_pubdate(d, entry, dt) EXCEPT !.entry_data.reran = "True"]

\* mutant: the flags are reset as soon as the last eligible entry is
\* rebroadcast
rebroadcast_each_eager(d, fd, batch, dts) ==
    LET done == [i \in 1..Len(fd) |->
                    IF \E k \in 1..Len(batch) : batch[k] = i
                    THEN rebroadcast_entry(d, fd[i],
                             dts[CHOOSE k \in 1..Len(batch) : batch[k] = i])
                    ELSE fd[i]]
    IN IF \A i \in 1..Len(done) : done[i].entry_data.reran = "True"
       THEN mark_all_not_reran(done)
       ELSE done

\* mutant: only the first entry of the batch is rebroadcast
rebroadcast_each_first(d, fd, batch, dts) ==
    IF batch = << >> THEN fd
    ELSE [fd EXCEPT ![Head(batch)] = rebroadcast_entry(d, fd[Head(batch)], Head(dts))]

\* for entry in batch: self._rebroadcast_entry(entry, use_datetime)
RECURSIVE rebroadcast_each(_, _, _, _)
rebroadcast_each(d, fd, batch, dts) ==
    IF batch = << >> THEN fd
    ELSE rebroadcast_each(d,
             [fd EXCEPT ![Head(batch)] = rebroadcast_entry(d, fd[Head(batch)], Head(dts))],
             Tail(batch), Tail(dts))

\* mutant: the loop body runs once before the test
while_remaining_after(rem, n) == rem > 0 \/ rem = n

\* while remaining > 0 (n is the count the call was made with)
while_remaining(rem, n) == rem > 0

\* mutant: the check is off by one
negative_strict(n) == n < -1

\* num < 0 raises ValueError
negative(n) == n < 0

\* ------------------------------------------------------------------ inputs
UseDatetimes ==
    {NoneDt}
    \cup {[kind |-> "datetime", text |-> [fmt |-> "datetime", t |-> g]] : g \in Times}
    \cup {[kind |-> "str", text |-> SrcText(g)] : g \in Times}

\* the use_datetime arguments of rebroadcast: None or a date text (a datetime
\* object, which write is called with, is used as the parsed text is)
CallDatetimes == {u \in UseDatetimes : u.kind # "datetime"}

ForeverTexts == {"True", "False", "true", "FALSE", "yes"}

Quiet == {"idle", "returned", "raised"}

NoOnes == [ok |-> FALSE, calls |-> << >>]

\* no entry of the feed has been broadcast since the load
NoTimes(fd) == [i \in 1..Len(fd) |-> 0]

\* the history of broadcasts after one more batch
MoreTimes(t, batch) ==
    LET c == [i \in 1..Len(t) |-> t[i] + Occurrences(batch, i)]
        least == CHOOSE x \in Range(c) : \A y \in Range(c) : x <= y
    IN IF Len(t) = 0 THEN t ELSE [i \in 1..Len(t) |-> c[i] - least]

NoAssigned == [text |-> "", before |-> ""]

\* ------------------------------------------------------- qualified names
\* A string is the sequence of its characters.
HasChar(str, c) == \E i \in 1..Len(str) : str[i] = c

Strings(n, alphabet) == UNION {[1..k -> alphabet] : k \in 0..n}

\* clark_notation.fullmatch(name): "{", non-blank characters, "}", non-blank
\* characters
clark_fullmatch(name) ==
    /\ Len(name) >= 2
    /\ name[1] = "{"
    /\ \E i \in 2..Len(name) : name[i] = "}"
    /\ ~HasChar(name, " ")

\* name.split(":", maxsplit=1)
split_colon(name) ==
    LET i == CHOOSE k \in 1..Len(name) :
                 name[k] = ":" /\ \A j \in 1..(k - 1) : name[j] # ":"
    IN [prefix |-> SubSeq(name, 1, i - 1), name |-> SubSeq(name, i + 1, Len(name))]

\* lxml accepts a local name that is not empty and has no colon, brace or blank
tag_valid(name) ==
    name # << >> /\ \A i \in 1..Len(name) : name[i] \notin {":", "{", "}", " "}

\* ET.QName(uri, name): the expanded name "{uri}name", or ValueError
ET_QName(uri, name) ==
    IF tag_valid(name)
    THEN [error |-> "none", tag |-> <<"{">> \o uri \o <<"}">> \o name]
    ELSE [error |-> "invalid_tag", tag |-> << >>]

NsValues(map) == {map[k] : k \in DOMAIN map}

\* mutant: prefix_or_uri is tried as a URI before it is tried as a prefix
QName_uri_first(map, preferred, name, prefix_or_uri) ==
    IF prefix_or_uri = NoText /\ preferred = NoText
    THEN [error |-> "none", tag |-> name]
    ELSE LET q == IF prefix_or_uri = NoText THEN preferred.s ELSE prefix_or_uri.s
         IN IF q \in NsValues(map) THEN ET_QName(q, name)
            ELSE IF q \in DOMAIN map THEN ET_QName(map[q], name)
            ELSE [error |-> "unknown_namespace", tag |-> << >>]

\* mutant: a prefix_or_uri that is not a prefix is taken to be a URI
QName_any_uri(map, preferred, name, prefix_or_uri) ==
    IF prefix_or_uri = NoText /\ preferred = NoText
    THEN [error |-> "none", tag |-> name]
    ELSE LET q == IF prefix_or_uri = NoText THEN preferred.s ELSE prefix_or_uri.s
         IN IF q \in DOMAIN map THEN ET_QName(map[q], name)
            ELSE ET_QName(q, name)

\* ElementWrapper._QName
QName(map, preferred, name, prefix_or_uri) ==
    IF prefix_or_uri = NoText /\ preferred = NoText
    THEN [error |-> "none", tag |-> name]
    ELSE LET q == IF prefix_or_uri = NoText THEN preferred.s ELSE prefix_or_uri.s
         IN IF q \in DOMAIN map THEN ET_QName(map[q], name)
            ELSE IF q \in NsValues(map) THEN ET_QName(q, name)
            ELSE [error |-> "unknown_namespace", tag |-> << >>]

\* mutant: "prefix, name = subelement_name", which also unpacks a string of
\* two characters
try_unpack_unpacking(map, preferred, subelement_name) ==
    IF subelement_name.form = "tuple"
    THEN QName(map, preferred, subelement_name.name, subelement_name.prefix_or_uri)
    ELSE IF Len(subelement_name.name) = 2
    THEN QName(map, preferred, <<subelement_name.name[2]>>,
               Str(<<subelement_name.name[1]>>))
    ELSE IF clark_fullmatch(subelement_name.name)
    THEN [error |-> "none", tag |-> subelement_name.name]
    ELSE IF HasChar(subelement_name.name, ":")
    THEN QName(map, preferred, split_colon(subelement_name.name).name,
               Str(split_colon(subelement_name.name).prefix))
    ELSE QName(map, preferred, subelement_name.name, NoText)

\* mutant: a name in Clark notation is treated like any other string
try_unpack_no_clark(map, preferred, subelement_name) ==
    IF subelement_name.form = "tuple"
    THEN QName(map, preferred, subelement_name.name, subelement_name.prefix_or_uri)
    ELSE IF HasChar(subelement_name.name, ":")
    THEN QName(map, preferred, split_colon(subelement_name.name).name,
               Str(split_colon(subelement_name.name).prefix))
    ELSE QName(map, preferred, subelement_name.name, NoText)

\* try_unpack: the name the wrapped method is called with, or the error raised
try_unpack(map, preferred, subelement_name) ==
    IF subelement_name.form = "tuple"
    THEN QName(map, preferred, subelement_name.name, subelement_name.prefix_or_uri)
    ELSE IF clark_fullmatch(subelement_name.name)
    THEN [error |-> "none", tag |-> subelement_name.name]
    ELSE IF HasChar(subelement_name.name, ":")
    THEN QName(map, preferred, split_colon(subelement_name.name).name,
               Str(split_colon(subelement_name.name).prefix))
    ELSE QName(map, preferred, subelement_name.name, NoText)

\* element.find(str(subelement_name), self._nsmap()): the position of the first
\* child of that name, 0 when there is none
maybe_get_subelement(children, tag) ==
    IF \E i \in 1..Len(children) : children[i].tag = tag
    THEN CHOOSE i \in 1..Len(children) :
             children[i].tag = tag /\ \A j \in 1..(i - 1) : children[j].tag # tag
    ELSE 0

\* mutant: a missing subelement is created before the existing children
get_or_create_subelement_front(children, tag) ==
    IF maybe_get_subelement(children, tag) # 0 THEN children
    ELSE <<[tag |-> tag, text |-> NoText]>> \o children

get_or_create_subelement(children, tag) ==
    IF maybe_get_subelement(children, tag) # 0 THEN children
    ELSE Append(children, [tag |-> tag, text |-> NoText])

set_subelement_text(children, tag, text) ==
    LET created == get_or_create_subelement(children, tag)
    IN [created EXCEPT ![maybe_get_subelement(created, tag)].text = text]

remove_subelement(children, tag) ==
    LET i == maybe_get_subelement(children, tag)
    IN IF i = 0 THEN children
       ELSE SubSeq(children, 1, i - 1) \o SubSeq(children, i + 1, Len(children))

\* ----------------------------------------------------------------- seeding
\* Tags and texts of the metadata nodes and defaults maps that are seeded
SeedTags == {"original_title", "title_suffix", "reran"}

SeedTexts == {NoText, Str(<< >>), Str(<<"False">>)}

Maps(tags, texts) == UNION {[K -> texts] : K \in SUBSET tags}

\* no node is being seeded
NoSeeding == seed_parent = EmptyMeta /\ seed_defaults = EmptyMeta /\ seeded = << >>

\* ------------------------------------------------------------------ titles
\* " ".join(parts)
RECURSIVE join(_)
join(parts) ==
    IF parts = << >> THEN << >>
    ELSE IF Len(parts) = 1 THEN parts[1]
    ELSE parts[1] \o <<" ">> \o join(Tail(parts))

\* dt.strftime(str): the directive is replaced by the date
strftime(dt, str) ==
    [i \in 1..Len(str) |-> IF str[i] = "%b %d %Y" THEN ToString(dt) ELSE str[i]]

\* element.text or ""
text_or_empty(text) == IF text = NoText THEN Str(<< >>) ELSE text

\* `if prefix:` a string that is given and not empty
truthy(text) == text # NoText /\ text.s # << >>

\* FeedModifier.__setitem__: self._meta_channel[name].text = value
set_item(meta, name, value) ==
    [k \in (DOMAIN meta) \cup {name} |-> IF k = name THEN value ELSE meta[k]]

\* FeedModifier.__getitem__: self._meta_channel[name].text, which creates
\* the subelement, without text, if there is none of that name
get_item(meta, name) ==
    IF name \in DOMAIN meta
    THEN [meta |-> meta, text |-> meta[name]]
    ELSE [meta |-> set_item(meta, name, NoText), text |-> NoText]

\* the parts that exist and have a text
with_text(parent, parts) ==
    SelectSeq(parts, LAMBDA part : part \in DOMAIN parent /\ parent[part] # NoText)

set_feed_title(ch, prefix, suffix) ==
    LET meta1 == IF truthy(prefix) THEN set_item(ch.channel_data, "title_prefix", prefix)
                 ELSE ch.channel_data
        meta2 == IF truthy(suffix) THEN set_item(meta1, "title_suffix", suffix) ELSE meta1
        parts == with_text(meta2, <<"title_prefix", "original_title", "title_suffix">>)
    IN [ch EXCEPT !.channel_data = meta2,
                  !.title = Str(join([i \in 1..Len(parts) |-> meta2[parts[i]].s]))]

\* the body of set_entry_titles' loop for one entry: its new title, or the
\* KeyError of title_parts[part] for a part that has no text
entry_title(meta, entry) ==
    LET dt == parse(entry.entry_data.original_pubdate)
        dated(str) == IF entry.entry_data.original_pubdate # Absent
                      THEN strftime(dt, str) ELSE str
    IN IF /\ Len(with_text(meta, <<"entry_title_prefix", "entry_title_suffix">>)) = 2
          /\ Len(with_text(entry.entry_data, <<"original_title">>)) = 1
       THEN [error |-> FALSE,
             title |-> Str(join(<<dated(meta.entry_title_prefix.s),
                                  entry.entry_data.original_title.s,
                                  dated(meta.entry_title_suffix.s)>>))]
       ELSE [error |-> TRUE, title |-> entry.title]

\* for entry in self.feed_entries(): ... ; the loop stops at the first KeyError
RECURSIVE entry_titles_from(_, _, _)
entry_titles_from(meta, fd, i) ==
    IF i > Len(fd) THEN [error |-> FALSE, feed |-> fd]
    ELSE IF entry_title(meta, fd[i]).error THEN [error |-> TRUE, feed |-> fd]
    ELSE entry_titles_from(meta, [fd EXCEPT ![i].title = entry_title(meta, fd[i]).title], i + 1)

\* mutant: composing the titles marks every entry as not reran
set_entry_titles_marking(ch, fd, prefix, suffix) ==
    LET meta1 == IF truthy(prefix) THEN set_item(ch.channel_data, "entry_title_prefix", prefix)
                 ELSE ch.channel_data
        meta2 == IF truthy(suffix) THEN set_item(meta1, "entry_title_suffix", suffix)
                 ELSE meta1
        titled == entry_titles_from(meta2, fd, 1)
    IN [error |-> titled.error,
        channel |-> [ch EXCEPT !.channel_data = meta2],
        feed |-> mark_all_not_reran(titled.feed)]

set_entry_titles(ch, fd, prefix, suffix) ==
    LET meta1 == IF truthy(prefix) THEN set_item(ch.channel_data, "entry_title_prefix", prefix)
                 ELSE ch.channel_data
        meta2 == IF truthy(suffix) THEN set_item(meta1, "entry_title_suffix", suffix)
                 ELSE meta1
        titled == entry_titles_from(meta2, fd, 1)
    IN [error |-> titled.error,
        channel |-> [ch EXCEPT !.channel_data = meta2],
        feed |-> titled.feed]

\* ----------------------------------------------------- subelement names
\* Characters of the names: a prefix p, a namespace u, and the punctuation
Alphabet == {"p", "u", ":", "{", "}"}

Unbraced == {"p", "u", ":"}

\* "{uri}local" with no further brace and a valid local name
clark_wellformed(name) ==
    /\ clark_fullmatch(name)
    /\ Cardinality({i \in 1..Len(name) : name[i] \in {"{", "}"}}) = 2
    /\ tag_valid(SubSeq(name, 1 + (CHOOSE i \in 1..Len(name) : name[i] = "}"), Len(name)))

\* the strings a subelement is named with: a local name, "prefix:local"
\* (any string with a colon and no brace), or "{uri}local"
NameStrings ==
    {str \in Strings(MaxNameLen, Alphabet) :
        \/ clark_wellformed(str)
        \/ ~HasChar(str, "{") /\ ~HasChar(str, "}") /\ HasChar(str, ":")
        \/ tag_valid(str)}

\* the (prefix_or_uri, local) pairs; prefix_or_uri None stands for no prefix
NamePairs ==
    {[form |-> "tuple", prefix_or_uri |-> q, name |-> l] :
        q \in {NoText} \cup {Str(str) : str \in Strings(MaxQualLen, Unbraced)},
        l \in {str \in Strings(MaxQualLen, Unbraced) : tag_valid(str)}}

SubelementNames ==
    NamePairs \cup {[form |-> "str", prefix_or_uri |-> NoText, name |-> str] : str \in NameStrings}

EmptyNs == [k \in {} |-> << >>]

\* namespace maps: none, a prefix, a default namespace (key ""), both, and
\* a map in which the URI of one prefix is spelt like another prefix
NsMaps ==
    {EmptyNs,
     (<<"p">> :> <<"u">>),
     (<<"p">> :> <<"u", ":">>),
     (<< >> :> <<"u">>),
     (<<"p">> :> <<"u">>) @@ (<< >> :> <<"u", "u">>),
     (<<"p">> :> <<"u">>) @@ (<<"u">> :> <<"p", "p">>)}

\* the children of the wrapped element: none, one in the namespace u, and a
\* second one in no namespace
Children ==
    {<< >>,
     <<[tag |-> <<"{", "u", "}", "p">>, text |-> Str(<<"p">>)]>>,
     <<[tag |-> <<"{", "u", "}", "p">>, text |-> Str(<<"p">>)],
       [tag |-> <<"p">>, text |-> NoText]>>}

\* the preferred prefix is None or the prefix of a declared namespace
PreferredPrefixes(map) == {NoText} \cup {Str(k) : k \in DOMAIN map}

NoCall ==
    [method |-> "none", name |-> << >>, error |-> "none", tag |-> << >>,
     before |-> << >>]

\* no element is being indexed
NoNames == nsmap = EmptyNs /\ with_prefix = NoText /\ element = << >> /\ call = NoCall

\* -------------------------------------------------------------------- load
\* An entry of the source document: its publish date in the dialect's field(s)
SourceEntry(d, field, date, title) ==
    [title |-> title,
     pubDate |-> IF d = "rss" THEN SrcText(date) ELSE Absent,
     published |-> IF d = "atom" /\ field = "published" THEN SrcText(date) ELSE Absent,
     updated |-> IF d = "atom" /\ field = "updated" THEN SrcText(date) ELSE Absent,
     entry_data |-> EmptyMeta]

\* The channel of the source document: its title and the date it was built
SourceChannel(d, title) ==
    [title |-> title,
     pubDate |-> IF d = "rss" THEN SrcText(1) ELSE Absent,
     lastBuildDate |-> Absent,
     updated |-> IF d = "atom" THEN SrcText(1) ELSE Absent,
     channel_data |-> EmptyMeta]

\* __init__: the defaults of the channel metadata (order and run_forever are
\* the variables of those names)
meta_channel_defaults(ch) ==
    [rate |-> Str(<<"1">>),
     original_title |-> text_or_empty(ch.title),
     title_prefix |-> Str(<<"[Reruns:]">>),
     title_suffix |-> NoText,
     entry_title_prefix |-> Str(<<"[Rerun:]">>),
     entry_title_suffix |-> Str(<<"(Originally published: ", "%b %d %Y", ")">>)]

\* mutant: the entry metadata is overwritten with the defaults
load_entry_overwriting(d, entry) ==
    [entry EXCEPT !.entry_data =
            [original_pubdate |-> get_entry_pubdate(d, entry),
             original_title |-> text_or_empty(entry.title),
             reran |-> "False"]]

\* __init__: seed the entry metadata of every entry
load_entry(d, entry) ==
    [entry EXCEPT !.entry_data =
        create_defaults_if_missing(entry.entry_data,
            [original_pubdate |-> get_entry_pubdate(d, entry),
             original_title |-> text_or_empty(entry.title),
             reran |-> "False"])]

\* the root of an RSS document has no channel element
NoChannel == [missing |-> TRUE]

\* a channel element without children, as ET.SubElement creates it
CreatedChannel ==
    [title |-> NoText, pubDate |-> Absent, lastBuildDate |-> Absent,
     updated |-> Absent, channel_data |-> EmptyMeta]

\* self._default_EWF(self._root)["channel"]: the wrapper's __getitem__, which
\* gets the subelement or creates it
root_channel(doc) ==
    IF doc.channel = NoChannel THEN CreatedChannel ELSE doc.channel

\* RSSFeedModifier.feed_channel
RSS_feed_channel(doc) ==
    LET ch == root_channel(doc)
    IN IF ch = NoChannel THEN [error |-> TRUE, channel |-> NoChannel]
       ELSE [error |-> FALSE, channel |-> ch]

\* AtomFeedModifier.feed_channel: the root element itself
Atom_feed_channel(doc) == [error |-> FALSE, channel |-> doc.channel]

feed_channel(d, doc) ==
    IF d = "rss" THEN RSS_feed_channel(doc) ELSE Atom_feed_channel(doc)

\* __init__ on a parsed document: the channel and the entries it leaves, or
\* the error that feed_channel or set_entry_titles raises
load(d, doc) ==
    LET found == feed_channel(d, doc)
        ch1 == [found.channel EXCEPT !.channel_data =
                    create_defaults_if_missing(@, meta_channel_defaults(found.channel))]
        fd1 == [i \in 1..Len(doc.feed) |-> load_entry(d, doc.feed[i])]
        ch2 == set_feed_title(ch1, NoText, NoText)
        titled == set_entry_titles(ch2, fd1, NoText, NoText)
    IN IF found.error
       THEN [error |-> TRUE, channel |-> NoChannel, feed |-> << >>]
       ELSE [error |-> titled.error, channel |-> titled.channel, feed |-> titled.feed]

\* ------------------------------------------------------------------ write
\* mutant: the RSS elements are updated whatever the dialect
update_feed_builddate_rss(d, ch, date) ==
    [ch EXCEPT !.pubDate = RSS_format_datetime(date),
               !.lastBuildDate = RSS_format_datetime(date)]

RSS_update_feed_builddate(ch, date) ==
    [ch EXCEPT !.pubDate = RSS_format_datetime(date),
               !.lastBuildDate = RSS_format_datetime(date)]

Atom_update_feed_builddate(ch, date) ==
    [ch EXCEPT !.updated = Atom_format_datetime(date)]

update_feed_builddate(d, ch, date) ==
    IF d = "rss" THEN RSS_update_feed_builddate(ch, date)
    ELSE Atom_update_feed_builddate(ch, date)

\* Prefix and URI of the reruns namespace, and the names of the elements
\* containing feed and entry data
ns_prefix == <<"reruns">>

ns_uri == <<"https://github.com/hannahlog/rss-reruns">>

meta_channel_tag == ns_prefix \o <<":", "channel_data">>

meta_entry_tag == ns_prefix \o <<":", "entry_data">>

\* the expanded name of the element self._channel[tag] or entry[tag] creates
meta_element(tag) ==
    try_unpack((ns_prefix :> ns_uri), NoText,
               [form |-> "str", prefix_or_uri |-> NoText, name |-> tag]).tag

\* the tag names write() passes to ET.strip_elements
strip_tags == {split_colon(meta_entry_tag).name, split_colon(meta_channel_tag).name}

\* ET.strip_elements deletes the elements whose tag is one of tag_names: a
\* name without namespace matches elements without namespace only
strip_matches(tag, tag_names) == tag \in tag_names

\* the text an element has when the written document is parsed: an empty
\* string is written as <tag></tag>, which parses to an element without text
written(text) == IF text = Str(<< >>) THEN NoText ELSE text

written_meta(meta) == [k \in DOMAIN meta |-> written(meta[k])]

\* self._tree.write(path, ...): the document as a parser reads it back
serialize(ch, ord, forever, fd) ==
    [channel |-> [ch EXCEPT !.title = written(@),
                            !.channel_data = written_meta(@)],
     order |-> ord,
     run_forever |-> forever,
     feed |-> [i \in 1..Len(fd) |->
                 [fd[i] EXCEPT !.title = written(@),
                               !.entry_data.original_title = written(@)]],
     channel_data_kept |-> TRUE,
     entry_data_kept |-> TRUE,
     reruns_declared |-> TRUE]

\* the copy write() strips: strip_elements, then cleanup_namespaces, which
\* drops the declaration of a namespace no element is in
strip(doc) ==
    LET keep_channel == ~strip_matches(meta_element(meta_channel_tag), strip_tags)
        keep_entry == ~strip_matches(meta_element(meta_entry_tag), strip_tags)
    IN [doc EXCEPT !.channel_data_kept = keep_channel,
                   !.entry_data_kept = keep_entry,
                   !.reruns_declared = keep_channel \/ (keep_entry /\ Len(doc.feed) > 0)]

\* ET.parse(path) of a written document: metadata that was stripped is not
\* there
parsed(doc) ==
    [channel |-> IF doc.channel_data_kept THEN doc.channel
                 ELSE [doc.channel EXCEPT !.channel_data = EmptyMeta],
     order |-> IF doc.channel_data_kept THEN doc.order ELSE "chronological",
     run_forever |-> IF doc.channel_data_kept THEN doc.run_forever ELSE "True",
     feed |-> IF doc.entry_data_kept THEN doc.feed
              ELSE [i \in 1..Len(doc.feed) |-> [doc.feed[i] EXCEPT !.entry_data = EmptyMeta]]]

NoFile == [mode |-> "none", doc |-> << >>]

NoCalled == [channel |-> << >>, order |-> "", run_forever |-> "", mode |-> "none"]

\* no document is loaded
NoDocument ==
    channel = << >> /\ source = << >> /\ file = NoFile /\ called = NoCalled

\* a modifier constructed on a document without reruns metadata, whose
\* entries were published on the given days
FreshLoad(days) ==
    /\ dialect \in {"rss", "atom"}
    /\ \E n \in 0..MaxEntries :
       \E dates \in [1..n -> days] :
       \E field \in (IF dialect = "rss" THEN {"pubDate"} ELSE {"updated"}) :
           LET doc == [channel |-> SourceChannel(dialect, Str(<<"Feed">>)),
                       feed |-> [i \in 1..n |->
                           SourceEntry(dialect, field, dates[i], Str(<<"Entry">>))]]
           IN /\ ~load(dialect, doc).error
              /\ feed = load(dialect, doc).feed
              /\ channel = load(dialect, doc).channel
              /\ source = doc
    /\ file = NoFile
    /\ called = NoCalled
    /\ order \in {"chronological", "shuffled"}
    /\ run_forever \in {"True", "False"}
    /\ op = "load"
    /\ pc = "idle"
    /\ num = 0
    /\ use_datetime = NoneDt
    /\ remaining = 0
    /\ reran = << >>
    /\ pre = feed
    /\ passes = << >>
    /\ ones = [ok |-> TRUE, calls |-> << >>]
    /\ queried = << >>
    /\ assigned = NoAssigned
    /\ times = NoTimes(feed)
    /\ NoSeeding
    /\ NoNames
    /\ NoFactory

\* the state after construction
Init == FreshLoad(Dates)

\* ----------------------------------------------------------------- actions
\* rebroadcast(num, use_datetime): the call, up to the loop
Rebroadcast ==
    /\ pc \in Quiet
    /\ \E n \in -1..MaxCount, u \in CallDatetimes :
        /\ num' = n
        /\ use_datetime' = u
        /\ IF negative(n)
           THEN pc' = "raised" /\ remaining' = 0
           ELSE pc' = "while" /\ remaining' = n
        /\ ones' = IF n = 1 THEN ones ELSE NoOnes
    /\ op' = "rebroadcast"
    /\ reran' = << >>
    /\ pre' = feed
    /\ passes' = << >>
    /\ queried' = << >>
    /\ assigned' = NoAssigned
    /\ UNCHANGED <<dialect, feed, order, run_forever, times>>
    /\ UNCHANGED <<seedvars, namevars, docvars, factoryvars>>

\* while remaining > 0: enter the body
WhileEnter ==
    /\ op = "rebroadcast" /\ pc = "while"
    /\ while_remaining(remaining, num)
    /\ pc' = "body"
    /\ UNCHANGED <<dialect, feed, order, run_forever, op, num, use_datetime,
                   remaining, reran, pre, passes, ones, queried, assigned, times>>
    /\ UNCHANGED <<seedvars, namevars, docvars, factoryvars>>

\* one pass of the loop body
Body ==
    /\ op = "rebroadcast" /\ pc = "body"
    /\ LET r == entries_to_rerun(feed, run_forever)
       IN \E batch \in batches(r.feed, r.entries, remaining, order) :
          \E dts \in [1..Len(batch) -> entry_datetimes(use_datetime)] :
            /\ feed' = rebroadcast_each(dialect, r.feed, batch, dts)
            /\ reran' = reran \o batch
            /\ remaining' = next_remaining(remaining, r.entries)
            /\ passes' = IF batch = << >> THEN passes
                         ELSE Append(passes, [reset |-> r.reset, n |-> Len(batch)])
            /\ times' = MoreTimes(times, batch)
    /\ pc' = "while"
    /\ UNCHANGED <<dialect, order, run_forever, op, num, use_datetime, pre, ones,
                   queried, assigned>>
    /\ UNCHANGED <<seedvars, namevars, docvars, factoryvars>>

\* the loop ends: return reran
Return ==
    /\ op = "rebroadcast" /\ pc = "while"
    /\ ~while_remaining(remaining, num)
    /\ pc' = "returned"
    /\ ones' = IF ones.ok /\ num = 1 /\ Len(reran) = 1 /\ Len(ones.calls) <= Len(feed)
               THEN [ok |-> TRUE,
                     calls |-> Append(ones.calls,
                                  [entry |-> reran[1], reset |-> passes[1].reset])]
               ELSE NoOnes
    /\ UNCHANGED <<dialect, feed, order, run_forever, op, num, use_datetime,
                   remaining, reran, pre, passes, queried, assigned, times>>
    /\ UNCHANGED <<seedvars, namevars, docvars, factoryvars>>

\* the run_forever setter
SetRunForever ==
    /\ pc \in Quiet
    /\ \E forever \in ForeverTexts :
        /\ IF Capitalize(forever) \in {"True", "False"}
           THEN run_forever' = Capitalize(forever) /\ pc' = "returned"
           ELSE run_forever' = run_forever /\ pc' = "raised"
        /\ assigned' = [text |-> forever, before |-> run_forever]
    /\ op' = "run_forever"
    /\ pre' = feed
    /\ ones' = NoOnes
    /\ passes' = << >>
    /\ reran' = << >>
    /\ queried' = << >>
    /\ num' = 0
    /\ use_datetime' = NoneDt
    /\ remaining' = 0
    /\ UNCHANGED <<dialect, feed, order, times>>
    /\ UNCHANGED <<seedvars, namevars, docvars, factoryvars>>

\* a direct call of _entries_to_rerun(), as the tests make
EntriesToRerun ==
    /\ pc \in Quiet
    /\ LET r == entries_to_rerun(feed, run_forever)
       IN feed' = r.feed /\ queried' = r.entries
    /\ op' = "entries_to_rerun"
    /\ pc' = "returned"
    /\ pre' = feed
    /\ num' = 0
    /\ use_datetime' = NoneDt
    /\ remaining' = 0
    /\ reran' = << >>
    /\ passes' = << >>
    /\ ones' = NoOnes
    /\ assigned' = NoAssigned
    /\ UNCHANGED <<dialect, order, run_forever, times>>
    /\ UNCHANGED <<seedvars, namevars, docvars, factoryvars>>

Next == Rebroadcast \/ WhileEnter \/ Body \/ Return \/ SetRunForever \/ EntriesToRerun

Spec == Init /\ [][Next]_vars

\* The interpreter runs a call to its end: every step of the loop is taken.
LiveSpec == Spec /\ WF_vars(WhileEnter) /\ WF_vars(Body) /\ WF_vars(Return)

\* A feed whose entries were published on pairwise different days, in any
\* document order, under the chronological policy
ChronInit ==
    /\ FreshLoad(1..MaxEntries)
    /\ order = "chronological"
    /\ \A i, j \in 1..Len(feed) :
          i # j => feed[i].entry_data.original_pubdate # feed[j].entry_data.original_pubdate

ChronSpec == ChronInit /\ [][Next]_vars

\* A feed that runs forever and is rebroadcast without end. The body of the
\* loop is taken in its two steps, so that the document between the query
\* (and its reset) and the broadcasts is a state of its own.
ForeverSizes == {1, 2}

ForeverCounts == {1, 2, 3}

ForeverInit ==
    /\ Init
    /\ Len(feed) \in ForeverSizes
    /\ run_forever = "True"

ForeverRebroadcast ==
    Rebroadcast /\ num' \in ForeverCounts /\ use_datetime' = NoneDt

\* entries = self._entries_to_rerun()
BodyEntries ==
    /\ op = "rebroadcast" /\ pc = "body"
    /\ LET r == entries_to_rerun(feed, run_forever)
       IN /\ feed' = r.feed
          /\ queried' = r.entries
          /\ passes' = Append(passes, [reset |-> r.reset, n |-> 0])
    /\ pc' = "for"
    /\ UNCHANGED <<dialect, order, run_forever, op, num, use_datetime, remaining,
                   reran, pre, ones, assigned, times>>
    /\ UNCHANGED <<seedvars, namevars, docvars, factoryvars>>

\* the branches of the body: the entries of the pass are rebroadcast
BodyBroadcast ==
    /\ op = "rebroadcast" /\ pc = "for"
    /\ \E batch \in batches(feed, queried, remaining, order) :
       \E dts \in [1..Len(batch) -> entry_datetimes(use_datetime)] :
            /\ feed' = rebroadcast_each(dialect, feed, batch, dts)
            /\ reran' = reran \o batch
            /\ remaining' = next_remaining(remaining, queried)
            /\ passes' = IF batch = << >> THEN SubSeq(passes, 1, Len(passes) - 1)
                         ELSE [passes EXCEPT ![Len(passes)].n = Len(batch)]
            /\ times' = MoreTimes(times, batch)
    /\ pc' = "while"
    /\ UNCHANGED <<dialect, order, run_forever, op, num, use_datetime, pre, ones,
                   queried, assigned>>
    /\ UNCHANGED <<seedvars, namevars, docvars, factoryvars>>

ForeverNext ==
    ForeverRebroadcast \/ WhileEnter \/ BodyEntries \/ BodyBroadcast \/ Return

\* The calls never end, and the interpreter takes every step of each.
ForeverSpec == ForeverInit /\ [][ForeverNext]_vars /\ WF_vars(ForeverNext)

\* ------------------------------------------------- seeding a metadata node
\* No feed is loaded: the scheduler's variables at rest
Unloaded ==
    /\ dialect = "rss" /\ feed = << >> /\ order = "chronological"
    /\ run_forever = "True" /\ op = "none" /\ pc = "idle" /\ num = 0
    /\ use_datetime = NoneDt /\ remaining = 0 /\ reran = << >> /\ pre = << >>
    /\ passes = << >> /\ ones = NoOnes /\ queried = << >>
    /\ assigned = NoAssigned /\ times = << >>

SeedInit ==
    /\ Unloaded
    /\ seed_parent \in Maps(SeedTags, SeedTexts)
    /\ seed_defaults \in Maps(SeedTags, SeedTexts)
    /\ seeded = << >>
    /\ NoNames
    /\ NoFactory
    /\ NoDocument

\* self._create_defaults_if_missing(parent, defaults), applied up to twice
SeedDefaults ==
    /\ Len(seeded) < 2
    /\ seed_parent' = create_defaults_if_missing(seed_parent, seed_defaults)
    /\ seeded' = Append(seeded, [before |-> seed_parent, after |-> seed_parent'])
    /\ UNCHANGED seed_defaults
    /\ UNCHANGED <<schedvars, namevars, docvars, factoryvars>>

SeedNext == SeedDefaults

SeedSpec == SeedInit /\ [][SeedNext]_vars

\* ------------------------------------------------ indexing an element
NameInit ==
    /\ Unloaded
    /\ NoSeeding
    /\ NoDocument
    /\ NoFactory
    /\ nsmap \in NsMaps
    /\ with_prefix \in PreferredPrefixes(nsmap)
    /\ element \in Children
    /\ call = NoCall

\* the record of a call of a wrapper method
Called(method, name, resolved) ==
    [method |-> method, name |-> name, error |-> resolved.error,
     tag |-> resolved.tag, before |-> element]

\* ElementWrapper.__getitem__
GetItem ==
    /\ call = NoCall
    /\ \E name \in SubelementNames :
        LET resolved == try_unpack(nsmap, with_prefix, name)
        IN /\ call' = Called("getitem", name, resolved)
           /\ element' = IF resolved.error # "none" THEN element
                         ELSE get_or_create_subelement(element, resolved.tag)
    /\ UNCHANGED <<nsmap, with_prefix>>
    /\ UNCHANGED <<schedvars, seedvars, docvars, factoryvars>>

\* ElementWrapper.__setitem__
SetItem ==
    /\ call = NoCall
    /\ \E name \in SubelementNames :
        LET resolved == try_unpack(nsmap, with_prefix, name)
        IN /\ call' = Called("setitem", name, resolved)
           /\ element' = IF resolved.error # "none" THEN element
                         ELSE set_subelement_text(element, resolved.tag, Str(<<"u">>))
    /\ UNCHANGED <<nsmap, with_prefix>>
    /\ UNCHANGED <<schedvars, seedvars, docvars, factoryvars>>

\* ElementWrapper.__delitem__
DelItem ==
    /\ call = NoCall
    /\ \E name \in SubelementNames :
        LET resolved == try_unpack(nsmap, with_prefix, name)
        IN /\ call' = Called("delitem", name, resolved)
           /\ element' = IF resolved.error # "none" THEN element
                         ELSE remove_subelement(element, resolved.tag)
    /\ UNCHANGED <<nsmap, with_prefix>>
    /\ UNCHANGED <<schedvars, seedvars, docvars, factoryvars>>

\* ElementWrapper.__contains__
Contains ==
    /\ call = NoCall
    /\ \E name \in SubelementNames :
        call' = Called("contains", name, try_unpack(nsmap, with_prefix, name))
    /\ UNCHANGED <<nsmap, with_prefix, element>>
    /\ UNCHANGED <<schedvars, seedvars, docvars, factoryvars>>

NameNext == GetItem \/ SetItem \/ DelItem \/ Contains

NameSpec == NameInit /\ [][NameNext]_vars

\* ------------------------------------------------------ the factory method
\* A path and a feed_format, before from_file is called with them
FactoryInit ==
    /\ Unloaded
    /\ NoSeeding
    /\ NoNames
    /\ NoDocument
    /\ path \in Paths
    /\ feed_format \in FeedFormats
    /\ concrete_subclass = NoOutcome

\* FeedModifier.from_file(path, feed_format)
FromFile ==
    /\ concrete_subclass = NoOutcome
    /\ concrete_subclass' = from_file(path, feed_format)
    /\ UNCHANGED <<path, feed_format>>
    /\ UNCHANGED <<schedvars, seedvars, namevars, docvars>>

FactoryNext == FromFile

FactorySpec == FactoryInit /\ [][FactoryNext]_vars

\* ------------------------------------------- titles, write and read back
\* Source documents: one or two entries, published at instants 1 and 2; the
\* title of the feed and the title of the first entry have a text or none
DocSizes == {1, 2}

SourceTitles(text) == {Str(<<text>>), NoText}

\* the prefix and suffix arguments of set_feed_title and set_entry_titles
TitleArgs ==
    {[prefix |-> NoText, suffix |-> NoText],
     [prefix |-> Str(<<"Again:">>), suffix |-> Str(<<"%b %d %Y", "!">>)]}

\* the channel metadata keys read, and the key and value written, through
\* the item access of the modifier
ItemNames == {"rate"}

ItemArgs == {[name |-> "entry_title_suffix", value |-> NoText]}

\* the counts rebroadcast is called with between title and file operations
DocCounts == {1, 2}

\* the source documents of a dialect; an RSS document may lack its channel,
\* and with it its items
SourceDocs(d) ==
    {[channel |-> SourceChannel(d, feed_title),
      feed |-> [i \in 1..n |->
                  SourceEntry(d, IF d = "rss" THEN "pubDate" ELSE "updated", i,
                              IF i = 1 THEN first_title ELSE Str(<<"Entry">>))]] :
        n \in DocSizes,
        feed_title \in SourceTitles("Feed"),
        first_title \in SourceTitles("Entry")}
    \cup (IF d = "rss" THEN {[channel |-> NoChannel, feed |-> << >>]} ELSE {})

DocInit ==
    /\ dialect \in {"rss", "atom"}
    /\ \E doc \in SourceDocs(dialect) :
        /\ ~load(dialect, doc).error
        /\ feed = load(dialect, doc).feed
        /\ channel = load(dialect, doc).channel
        /\ source = doc
    /\ order = "chronological"
    /\ run_forever = "True"
    /\ op = "load"
    /\ pc = "idle"
    /\ num = 0
    /\ use_datetime = NoneDt
    /\ remaining = 0
    /\ reran = << >>
    /\ pre = feed
    /\ passes = << >>
    /\ ones = NoOnes
    /\ queried = << >>
    /\ assigned = NoAssigned
    /\ times = NoTimes(feed)
    /\ file = NoFile
    /\ called = NoCalled
    /\ NoSeeding
    /\ NoNames
    /\ NoFactory

\* what an operation on the document leaves of the scheduler's call
DocCall(name) ==
    /\ op' = name
    /\ pre' = feed
    /\ called' = [channel |-> channel, order |-> order, run_forever |-> run_forever,
                  mode |-> file.mode]
    /\ num' = 0
    /\ use_datetime' = NoneDt
    /\ remaining' = 0
    /\ reran' = << >>
    /\ passes' = << >>
    /\ ones' = NoOnes
    /\ queried' = << >>
    /\ assigned' = NoAssigned
    /\ UNCHANGED <<dialect, source, times, seedvars, namevars, factoryvars>>

\* set_feed_title(prefix=..., suffix=...)
SetFeedTitle ==
    /\ pc \in Quiet /\ file = NoFile
    /\ \E args \in TitleArgs :
        channel' = set_feed_title(channel, args.prefix, args.suffix)
    /\ pc' = "returned"
    /\ DocCall("set_feed_title")
    /\ UNCHANGED <<feed, order, run_forever, file>>

\* set_entry_titles(prefix=..., suffix=...)
SetEntryTitles ==
    /\ pc \in Quiet /\ file = NoFile
    /\ \E args \in TitleArgs :
        LET titled == set_entry_titles(channel, feed, args.prefix, args.suffix)
        IN /\ channel' = titled.channel
           /\ feed' = titled.feed
           /\ pc' = IF titled.error THEN "raised" ELSE "returned"
    /\ DocCall("set_entry_titles")
    /\ UNCHANGED <<order, run_forever, file>>

\* fm[name]
FeedGetItem ==
    /\ pc \in Quiet /\ file = NoFile
    /\ \E name \in ItemNames :
        channel' = [channel EXCEPT !.channel_data = get_item(@, name).meta]
    /\ pc' = "returned"
    /\ DocCall("getitem")
    /\ UNCHANGED <<feed, order, run_forever, file>>

\* fm[name] = value
FeedSetItem ==
    /\ pc \in Quiet /\ file = NoFile
    /\ \E arg \in ItemArgs :
        channel' = [channel EXCEPT !.channel_data = set_item(@, arg.name, arg.value)]
    /\ pc' = "returned"
    /\ DocCall("setitem")
    /\ UNCHANGED <<feed, order, run_forever, file>>

\* write(path, with_reruns_data, use_datetime)
Write ==
    /\ pc \in Quiet /\ file = NoFile
    /\ \E with_reruns_data \in BOOLEAN, u \in UseDatetimes :
       \E dt \in entry_datetimes(u) :
        /\ channel' = update_feed_builddate(dialect, channel, dt)
        /\ file' = IF with_reruns_data
                   THEN [mode |-> "with_reruns_data",
                         doc |-> serialize(channel', order, run_forever, feed)]
                   ELSE [mode |-> "stripped",
                         doc |-> strip(serialize(channel', order, run_forever, feed))]
    /\ pc' = "returned"
    /\ DocCall("write")
    /\ UNCHANGED <<feed, order, run_forever>>

\* FeedModifier.from_file(path) on the document written: a new modifier, or
\* the error its construction raises (the modifier in hand is then kept)
Reload ==
    /\ pc \in Quiet /\ file # NoFile
    /\ LET doc == parsed(file.doc)
           loaded == load(dialect, doc)
       IN IF loaded.error
          THEN pc' = "raised" /\ UNCHANGED <<channel, feed, order, run_forever>>
          ELSE /\ pc' = "returned"
               /\ channel' = loaded.channel
               /\ feed' = loaded.feed
               /\ order' = doc.order
               /\ run_forever' = doc.run_forever
    /\ file' = NoFile
    /\ DocCall("reload")

\* the scheduler's calls, made while no written file waits to be read back
DocRebroadcast ==
    file = NoFile /\ Rebroadcast /\ num' \in DocCounts /\ use_datetime' = NoneDt

DocSetRunForever ==
    file = NoFile /\ SetRunForever /\ assigned'.text \in {"True", "False"}

DocEntriesToRerun == file = NoFile /\ EntriesToRerun

DocNext ==
    \/ DocRebroadcast \/ WhileEnter \/ Body \/ Return
    \/ DocSetRunForever \/ DocEntriesToRerun
    \/ SetFeedTitle \/ SetEntryTitles \/ FeedGetItem \/ FeedSetItem
    \/ Write \/ Reload

DocSpec == DocInit /\ [][DocNext]_vars

\* ------------------------------------- a document that carries metadata
\* A document written earlier, or edited by hand: every entry has its
\* metadata, and the text of reran is any text
StoredFlags == {"True", "False", "maybe"}

StoredSizes == {1, 2}

StoredEntry(d, i, flag) ==
    [SourceEntry(d, IF d = "rss" THEN "pubDate" ELSE "updated", i, Str(<<"Entry">>))
        EXCEPT !.entry_data = [original_pubdate |-> SrcText(i),
                               original_title |-> Str(<<"Entry">>),
                               reran |-> flag]]

StoredInit ==
    /\ dialect \in {"rss", "atom"}
    /\ \E n \in StoredSizes :
       \E flags \in [1..n -> StoredFlags] :
           LET doc == [channel |-> SourceChannel(dialect, Str(<<"Feed">>)),
                       feed |-> [i \in 1..n |-> StoredEntry(dialect, i, flags[i])]]
           IN /\ ~load(dialect, doc).error
              /\ feed = load(dialect, doc).feed
              /\ channel = load(dialect, doc).channel
              /\ source = doc
    /\ order \in {"chronological", "shuffled"}
    /\ run_forever \in {"True", "False"}
    /\ op = "load"
    /\ pc = "idle"
    /\ num = 0
    /\ use_datetime = NoneDt
    /\ remaining = 0
    /\ reran = << >>
    /\ pre = feed
    /\ passes = << >>
    /\ ones = NoOnes
    /\ queried = << >>
    /\ assigned = NoAssigned
    /\ times = NoTimes(feed)
    /\ file = NoFile
    /\ called = NoCalled
    /\ NoSeeding
    /\ NoNames
    /\ NoFactory

StoredRebroadcast == Rebroadcast /\ num' \in DocCounts

StoredNext ==
    \/ StoredRebroadcast \/ WhileEnter \/ Body \/ Return
    \/ SetRunForever \/ EntriesToRerun

StoredSpec == StoredInit /\ [][StoredNext]_vars

\* ------------------------------------------------------------ properties
\* Entries whose reran flag is "False" (Pending) and "True" (Broadcast)
Eligible(fd) == {i \in 1..Len(fd) : fd[i].entry_data.reran = "False"}

Broadcast(fd) == {i \in 1..Len(fd) : fd[i].entry_data.reran = "True"}

OriginalDate(i) == pre[i].entry_data.original_pubdate.t

PublishFields(e) == <<e.pubDate, e.published, e.updated>>

Returned == op = "rebroadcast" /\ pc = "returned"

\* C1: with at least one entry and run_forever true, rebroadcast(count) with
\* count >= 0 returns exactly count entries, over all passes and resets.
C1_ReturnsCount ==
    (Returned /\ Len(feed) >= 1 /\ run_forever = "True" /\ num >= 0)
        => Len(reran) = num

C1_Witness ==
    /\ Returned /\ Len(feed) = 2 /\ run_forever = "True"
    /\ Cardinality(Eligible(pre)) = 1
    /\ num = 4 /\ Len(reran) = 4
    /\ Len(passes) = 3 /\ passes[2].reset

\* C2: every call rebroadcast(count) with count >= 0 terminates, also when
\* run_forever is false and fewer than count entries are eligible, and when
\* the feed has no entries.
C2_Terminates == (op = "rebroadcast" /\ pc = "while") ~> (pc = "returned")

\* C3: rebroadcast(count) with count < 0 raises and leaves every entry's
\* reran flag and publish-date fields as they were.
C3_NegativeRaises ==
    (op = "rebroadcast" /\ num < 0) => (pc = "raised" /\ feed = pre)

C3_Witness ==
    /\ op = "rebroadcast" /\ pc = "raised" /\ num = -1
    /\ Broadcast(feed) # {} /\ Eligible(feed) # {}

\* C4: from a load with N >= 1 eligible entries and run_forever true, N
\* successive calls rebroadcast(1) return each entry exactly once, and the
\* (N+1)-th call resets and returns one entry of the feed.
C4_OnePerCall ==
    LET n == Len(feed)
        k == Len(ones.calls)
    IN (ones.ok /\ n >= 1 /\ run_forever = "True") =>
        /\ \A i, j \in 1..k : (i < j /\ j <= n) => ones.calls[i].entry # ones.calls[j].entry
        /\ \A i \in 1..k : i <= n => ~ones.calls[i].reset
        /\ k >= n => {ones.calls[i].entry : i \in 1..n} = 1..n
        /\ k = n + 1 => (ones.calls[k].reset /\ ones.calls[k].entry \in 1..n)

C4_Witness ==
    /\ ones.ok /\ Len(feed) = 3 /\ run_forever = "True" /\ order = "shuffled"
    /\ Len(ones.calls) = 4
    /\ ones.calls[1].entry = 3
    /\ ones.calls[4].entry = ones.calls[3].entry

\* C5: with all N >= 1 entries eligible and run_forever true, rebroadcast(k)
\* for k = m*N, m >= 1, returns k entries, each entry exactly m times.
C5_Multiples ==
    (/\ Returned /\ Len(feed) >= 1 /\ run_forever = "True"
     /\ Eligible(pre) = 1..Len(pre)
     /\ num >= 1 /\ num % Len(feed) = 0)
        => /\ Len(reran) = num
           /\ \A i \in 1..Len(feed) : Occurrences(reran, i) = num \div Len(feed)

C5_Witness ==
    /\ Returned /\ Len(feed) = 2 /\ run_forever = "True"
    /\ Eligible(pre) = {1, 2} /\ num = 4
    /\ Occurrences(reran, 1) = 2

\* C6 as stated: under the shuffled policy a call with count not greater
\* than the number of entries never returns the same entry twice.
C6_NoRepeatShuffled ==
    (Returned /\ order = "shuffled" /\ num <= Len(feed)) => NoDup(reran)

\* C6 amended: under the shuffled policy a call with count not greater than
\* the number of entries never returns the same entry twice, provided it does
\* not reset after it has broadcast an entry: count is at most the number of
\* entries eligible when the call starts, or none is eligible then.
C6_NoRepeatWithoutMidReset ==
    (/\ Returned /\ order = "shuffled" /\ num <= Len(feed)
     /\ (num <= Cardinality(Eligible(pre)) \/ Eligible(pre) = {}))
        => NoDup(reran)

C6_Witness ==
    /\ Returned /\ order = "shuffled" /\ Len(feed) = 3
    /\ Eligible(pre) = {} /\ num = 2
    /\ reran = <<3, 1>>

\* C7: under the chronological policy, rebroadcast(count) with
\* 0 < count < size of the eligible set broadcasts exactly the count eligible
\* entries with the earliest original_pubdate, returns them in ascending
\* original_pubdate order, and leaves eligible only entries not earlier than
\* every entry returned.
C7_Chronological ==
    (/\ Returned /\ order = "chronological"
     /\ 0 < num /\ num < Cardinality(Eligible(pre)))
        => /\ Len(reran) = num
           /\ NoDup(reran)
           /\ Range(reran) \subseteq Eligible(pre)
           /\ Broadcast(feed) = Broadcast(pre) \cup Range(reran)
           /\ \A i, j \in 1..Len(reran) :
                  i < j => OriginalDate(reran[i]) <= OriginalDate(reran[j])
           /\ \A e \in Eligible(feed) : \A r \in Range(reran) :
                  OriginalDate(r) <= OriginalDate(e)

C7_Witness ==
    /\ Returned /\ order = "chronological" /\ Len(feed) = 3
    /\ Eligible(pre) = {1, 2, 3} /\ num = 2
    /\ OriginalDate(1) = 2 /\ OriginalDate(2) = 2 /\ OriginalDate(3) = 1
    /\ reran = <<3, 1>>

\* C8: after rebroadcast(count, t) returns, every returned entry has its
\* publish-date field(s) equal to the dialect's format of t (pubDate for RSS;
\* published and updated, with the same text, for Atom), every other entry
\* keeps its publish-date fields, and the number of entries is unchanged.
C8_PubdateRewritten ==
    (Returned /\ use_datetime.kind # "none") =>
        LET t == use_datetime.text.t
        IN /\ Len(feed) = Len(pre)
           /\ \A i \in Range(reran) :
                IF dialect = "rss"
                THEN /\ feed[i].pubDate = [fmt |-> "rfc822", t |-> t]
                     /\ feed[i].published = Absent
                     /\ feed[i].updated = Absent
                ELSE /\ feed[i].published = [fmt |-> "rfc3339", t |-> t]
                     /\ feed[i].updated = [fmt |-> "rfc3339", t |-> t]
                     /\ feed[i].pubDate = Absent
           /\ \A i \in 1..Len(feed) :
                i \notin Range(reran) => PublishFields(feed[i]) = PublishFields(pre[i])

C8_Witness ==
    /\ Returned /\ use_datetime.kind = "str" /\ dialect = "atom"
    /\ Len(feed) = 3 /\ reran = <<2>>
    /\ feed[2].published = [fmt |-> "rfc3339", t |-> 8]
    /\ pre[2].published = Absent
    /\ feed[1].updated.fmt = "src"
    /\ feed[3].updated.fmt = "rfc3339"

\* C9: rebroadcast(k) with 0 < k < size of the eligible set changes the reran
\* flag of exactly the k returned entries from False to True and leaves every
\* other flag unchanged, so the eligible set shrinks by exactly k.
C9_FlagsFlip ==
    (Returned /\ 0 < num /\ num < Cardinality(Eligible(pre))) =>
        /\ Len(reran) = num
        /\ NoDup(reran)
        /\ \A i \in Range(reran) :
              pre[i].entry_data.reran = "False" /\ feed[i].entry_data.reran = "True"
        /\ \A i \in 1..Len(feed) :
              i \notin Range(reran) => feed[i].entry_data.reran = pre[i].entry_data.reran
        /\ Cardinality(Eligible(feed)) = Cardinality(Eligible(pre)) - num

C9_Witness ==
    /\ Returned /\ Len(feed) = 3 /\ order = "shuffled"
    /\ Eligible(pre) = {1, 3} /\ num = 1
    /\ Eligible(feed) = {1}

\* C10: when rebroadcast(count), count >= 1, is called while every entry is
\* Broadcast and run_forever is true, the entries are first reset to Pending
\* and the same call selects from the full set: it returns count entries
\* and, for count < N, leaves exactly N - count entries Pending.
C10_ResetThenSelect ==
    (/\ Returned /\ Len(feed) >= 1 /\ run_forever = "True"
     /\ Eligible(pre) = {} /\ num >= 1)
        => /\ Len(reran) = num
           /\ passes[1].reset
           /\ passes[1].n = (IF num < Len(feed) THEN num ELSE Len(feed))
           /\ num < Len(feed) =>
                /\ Cardinality(Eligible(feed)) = Len(feed) - num
                /\ Broadcast(feed) = Range(reran)

C10_Witness ==
    /\ Returned /\ Len(feed) = 3 /\ run_forever = "True"
    /\ Eligible(pre) = {} /\ num = 2
    /\ Cardinality(Eligible(feed)) = 1

\* C11: with at least one entry and run_forever true, _entries_to_rerun()
\* never returns an empty list; called when every entry has been broadcast,
\* it returns all entries and leaves every entry marked reran "False".
C11_QueryNeverEmpty ==
    (op = "entries_to_rerun" /\ Len(feed) >= 1 /\ run_forever = "True")
        => /\ queried # << >>
           /\ Eligible(pre) = {}
                => /\ queried = feed_entries(feed)
                   /\ Eligible(feed) = 1..Len(feed)

C11_Witness ==
    /\ op = "entries_to_rerun" /\ Len(feed) = 3 /\ run_forever = "True"
    /\ Broadcast(pre) = {1, 2, 3}
    /\ queried = <<1, 2, 3>>

\* C12: with N >= 2 entries and run_forever true, for 1 <= num < N: when
\* _entries_to_rerun() returns r entries before rebroadcast(num), after the
\* call it returns a list whose size is congruent to r - num modulo N.
C12_QuerySizeModulo ==
    (Returned /\ Len(feed) >= 2 /\ run_forever = "True" /\ 1 <= num /\ num < Len(feed))
        => LET N == Len(feed)
               r == Len(entries_to_rerun(pre, run_forever).entries)
               q == Len(entries_to_rerun(feed, run_forever).entries)
           IN q % N = (r - num + N) % N

C12_Witness ==
    /\ Returned /\ Len(feed) = 3 /\ run_forever = "True" /\ num = 2
    /\ Cardinality(Eligible(pre)) = 1
    /\ Len(passes) = 2
    /\ Cardinality(Eligible(feed)) = 2

\* C14: _create_defaults_if_missing is idempotent: applied twice with the
\* same defaults map it leaves the same tags with the same texts as applied
\* once.
C14_SeedIdempotent ==
    Len(seeded) = 2 => seeded[2].after = seeded[1].after

C14_Witness ==
    /\ Len(seeded) = 2
    /\ DOMAIN seeded[1].before = {"reran"}
    /\ DOMAIN seed_defaults = SeedTags
    /\ seed_defaults["title_suffix"] = NoText
    /\ seeded[1].before["reran"] = Str(<< >>)
    /\ seed_defaults["reran"] = Str(<<"False">>)

\* C15: _create_defaults_if_missing creates exactly the tags that are absent,
\* each with its default text (no text when the default is None), and leaves
\* every tag already present with its text, the empty text included.
C15_SeedFrame ==
    \A k \in 1..Len(seeded) :
        LET b == seeded[k].before
            a == seeded[k].after
        IN /\ DOMAIN a = (DOMAIN b) \cup (DOMAIN seed_defaults)
           /\ \A t \in DOMAIN b : a[t] = b[t]
           /\ \A t \in (DOMAIN seed_defaults) \ (DOMAIN b) : a[t] = seed_defaults[t]

C15_Witness ==
    /\ Len(seeded) = 1
    /\ DOMAIN seeded[1].before = {"original_title", "reran"}
    /\ seeded[1].before["original_title"] = Str(<< >>)
    /\ seeded[1].before["reran"] = NoText
    /\ DOMAIN seed_defaults = SeedTags
    /\ seed_defaults["title_suffix"] = NoText
    /\ seed_defaults["original_title"] = Str(<<"False">>)
    /\ seeded[1].after["title_suffix"] = NoText

\* the prefix_or_uri a subelement name gives: the first of a pair, or what
\* precedes the first colon of a string that is not in Clark notation
GivenQualifier(name) ==
    IF name.form = "tuple" THEN name.prefix_or_uri
    ELSE IF ~clark_fullmatch(name.name) /\ HasChar(name.name, ":")
    THEN Str(split_colon(name.name).prefix)
    ELSE NoText

\* C20: a (prefix_or_uri, local) pair or a "prefix:local" string whose
\* prefix_or_uri is neither a key nor a value of the namespace map raises the
\* unknown-namespace error, and the element's children are left as they were.
C20_UnknownNamespace ==
    (/\ call.method # "none"
     /\ GivenQualifier(call.name) # NoText
     /\ GivenQualifier(call.name).s \notin (DOMAIN nsmap) \cup NsValues(nsmap))
        => call.error = "unknown_namespace" /\ element = call.before

C20_Witness ==
    /\ call.method = "getitem"
    /\ call.name = [form |-> "str", prefix_or_uri |-> NoText, name |-> <<"u", "p", ":", "p">>]
    /\ nsmap = (<<"p">> :> <<"u">>)
    /\ call.error = "unknown_namespace"
    /\ Len(element) = 1

\* the local name a subelement name gives: the second of a pair, or what
\* follows the first colon of a string that is not in Clark notation
GivenLocal(name) ==
    IF name.form = "str" /\ ~clark_fullmatch(name.name) /\ HasChar(name.name, ":")
    THEN split_colon(name.name).name
    ELSE name.name

\* the expanded name "{uri}local"
Expanded(uri, local) == <<"{">> \o uri \o <<"}">> \o local

\* C21: with prefix p bound to URI u, the pairs (p, l) and (u, l) and the
\* strings "p:l" and "{u}l" all resolve to the expanded name {u}l: a given
\* prefix_or_uri that is a key of the namespace map resolves to the URI it is
\* bound to, whether or not it is also a value of the map; one that is no key
\* but a value resolves to itself; a Clark-notation string resolves to itself.
C21_SameExpandedName ==
    call.method # "none" =>
        LET q == GivenQualifier(call.name)
            l == GivenLocal(call.name)
        IN /\ (q # NoText /\ tag_valid(l) /\ q.s \in DOMAIN nsmap)
                => call.error = "none" /\ call.tag = Expanded(nsmap[q.s], l)
           /\ (q # NoText /\ tag_valid(l) /\ q.s \notin DOMAIN nsmap
                          /\ q.s \in NsValues(nsmap))
                => call.error = "none" /\ call.tag = Expanded(q.s, l)
           /\ (call.name.form = "str" /\ clark_wellformed(call.name.name))
                => \A u \in NsValues(nsmap), local \in Strings(MaxQualLen, Unbraced) :
                      call.name.name = Expanded(u, local)
                          => call.error = "none" /\ call.tag = Expanded(u, local)

C21_Witness ==
    /\ call.method = "contains"
    /\ nsmap = (<<"p">> :> <<"u">>)
    /\ call.name = [form |-> "tuple", prefix_or_uri |-> Str(<<"u">>), name |-> <<"p">>]
    /\ call.error = "none"
    /\ call.tag = <<"{", "u", "}", "p">>

\* C22: a string that is a bare local name (no colon, no brace), of two
\* characters or of any other length, resolves to that whole name in the
\* namespace of the wrapper's preferred prefix, and to the name itself when
\* the preference is None; it is never split into a prefix and a local name.
C22_BareLocalName ==
    (/\ call.method # "none"
     /\ call.name.form = "str"
     /\ tag_valid(call.name.name))
        => /\ call.error = "none"
           /\ call.tag = IF with_prefix = NoText THEN call.name.name
                         ELSE Expanded(nsmap[with_prefix.s], call.name.name)

C22_Witness ==
    /\ call.method = "getitem"
    /\ call.name = [form |-> "str", prefix_or_uri |-> NoText, name |-> <<"p", "u">>]
    /\ nsmap = (<<"p">> :> <<"u">>)
    /\ with_prefix = Str(<<"p">>)
    /\ call.tag = <<"{", "u", "}", "p", "u">>

\* C23: a string in Clark notation "{uri}local" is used as it is: the method
\* is called with that very name and no error is raised, whether or not uri
\* is a value of the namespace map and whether or not it contains a colon.
C23_ClarkVerbatim ==
    (/\ call.method # "none"
     /\ call.name.form = "str"
     /\ clark_wellformed(call.name.name))
        => call.error = "none" /\ call.tag = call.name.name

C23_Witness ==
    /\ call.method = "setitem"
    /\ call.name = [form |-> "str", prefix_or_uri |-> NoText, name |-> <<"{", ":", "}", "p">>]
    /\ nsmap = (<<"p">> :> <<"u">>)
    /\ call.error = "none"
    /\ element[Len(element)] = [tag |-> <<"{", ":", "}", "p">>, text |-> Str(<<"u">>)]

\* C24: after wrapper[key] = text the first child named key has that text;
\* every child there was before is at its position, those of another name
\* with their text; a child is added, after all others, only when there was
\* none of that name.
C24_SetFrame ==
    (call.method = "setitem" /\ call.error = "none")
        => LET before == call.before
               present == \E j \in 1..Len(before) : before[j].tag = call.tag
           IN /\ \E k \in 1..Len(element) :
                    /\ element[k] = [tag |-> call.tag, text |-> Str(<<"u">>)]
                    /\ \A j \in 1..(k - 1) : element[j].tag # call.tag
              /\ Len(element) = Len(before) + (IF present THEN 0 ELSE 1)
              /\ \A j \in 1..Len(before) :
                    /\ element[j].tag = before[j].tag
                    /\ before[j].tag # call.tag => element[j] = before[j]
              /\ ~present => element[Len(element)].tag = call.tag

C24_Witness ==
    /\ call.method = "setitem"
    /\ call.error = "none"
    /\ Len(call.before) = 2
    /\ Len(element) = 3
    /\ element[3] = [tag |-> <<"{", "u", "}", "u">>, text |-> Str(<<"u">>)]

\* C25: indexing the wrapper with a name it has no child of leaves it without
\* such a child: the children after wrapper[key] are the children before.
C25_GetLeavesAbsent ==
    (/\ call.method = "getitem"
     /\ call.error = "none"
     /\ \A j \in 1..Len(call.before) : call.before[j].tag # call.tag)
        => /\ element = call.before
           /\ \A j \in 1..Len(element) : element[j].tag # call.tag

\* the boolean a text spells, whatever the case of its letters
BooleanOf(text) ==
    CASE text \in {"True", "true", "TRUE"} -> "True"
      [] text \in {"False", "false", "FALSE"} -> "False"
      [] OTHER -> "none"

\* C27: assigning run_forever a text that spells neither True nor False
\* raises and leaves the stored text as it was; assigning one that spells a
\* boolean, in any case, stores "True" or "False" accordingly, and the getter
\* then returns that boolean.
C27_RunForeverAssignment ==
    op = "run_forever" =>
        IF BooleanOf(assigned.text) = "none"
        THEN pc = "raised" /\ run_forever = assigned.before
        ELSE /\ pc = "returned"
             /\ run_forever = BooleanOf(assigned.text)
             /\ run_forever_get(run_forever) = (BooleanOf(assigned.text) = "True")

C27_Witness ==
    /\ op = "run_forever"
    /\ assigned = [text |-> "yes", before |-> "False"]
    /\ pc = "raised"
    /\ run_forever = "False"

\* C29: while the stored run_forever text is "False", a rebroadcast call (at
\* every step of it) and an _entries_to_rerun() query leave no entry eligible
\* that was not eligible when the call was made; a query made when no entry
\* is eligible returns the empty list and a rebroadcast then broadcasts none.
C29_NoResetUnlessForever ==
    (op \in {"rebroadcast", "entries_to_rerun"} /\ run_forever = "False")
        => /\ Eligible(feed) \subseteq Eligible(pre)
           /\ Eligible(pre) = {} => feed = pre /\ queried = << >> /\ reran = << >>

C29_Witness ==
    /\ op = "entries_to_rerun"
    /\ run_forever = "False"
    /\ Len(feed) = 2
    /\ Broadcast(pre) = {1, 2}
    /\ Broadcast(feed) = {1, 2}
    /\ queried = << >>

\* C28: for an RSS document whose root has no channel element the
\* construction raises: no modifier is ever in use for such a document, and
\* no channel element is added to it.
C28_NoChannelAborts ==
    (dialect = "rss" /\ source.channel = NoChannel)
        => op = "load" /\ pc = "raised" /\ channel = NoChannel

C26_MalformedReranRaises ==
    (/\ pc \in Quiet
     /\ op = "entries_to_rerun" \/ (op = "rebroadcast" /\ num >= 1)
     /\ \E i \in 1..Len(pre) : pre[i].entry_data.reran \notin {"True", "False"})
        => pc = "raised"

\* C32 as stated: under the chronological policy a call that resets nothing
\* returns its entries in ascending original_pubdate order, whatever its
\* count and whatever the order of the entries in the document.
C32_ChronologicalAnyCount ==
    (/\ Returned /\ order = "chronological"
     /\ \A k \in 1..Len(passes) : ~passes[k].reset)
        => \A i, j \in 1..Len(reran) :
              i < j => OriginalDate(reran[i]) <= OriginalDate(reran[j])

\* C36: rebroadcast(0) does not enter its loop: it returns the empty list,
\* and the document is as it was when the call was made, flags and publish
\* dates, also when no entry is eligible and run_forever is true.
C36_ZeroCount ==
    (op = "rebroadcast" /\ num = 0)
        => /\ pc \in {"while", "returned"}
           /\ reran = << >>
           /\ feed = pre
           /\ passes = << >>

C36_Witness ==
    /\ Returned /\ num = 0
    /\ run_forever = "True"
    /\ Len(feed) = 2
    /\ Eligible(pre) = {}
    /\ Broadcast(feed) = {1, 2}

\* C34: from a fresh load on, a pass of rebroadcast broadcasts no entry
\* twice, an entry that is already Broadcast is broadcast again (or is
\* Pending again) only by a step that started with every entry Broadcast,
\* i.e. after a reset, and so the numbers of times any two entries have been
\* broadcast since the load never differ by more than one.
C34_EvenRotation ==
    /\ [](\A i \in 1..Len(feed) : times[i] <= 1)
    /\ [][LET batch == SubSeq(reran', Len(reran) + 1, Len(reran'))
              again == (IF op = "rebroadcast" /\ pc = "body"
                        THEN Range(batch) \cap Broadcast(feed) ELSE {})
                       \cup (Broadcast(feed) \cap Eligible(feed'))
          IN /\ (op = "rebroadcast" /\ pc = "body") => NoDup(batch)
             /\ again # {} => Broadcast(feed) = 1..Len(feed)]_vars

C34_Witness ==
    /\ Returned /\ Len(feed) = 3 /\ num = 2
    /\ passes = <<[reset |-> FALSE, n |-> 1], [reset |-> TRUE, n |-> 1]>>
    /\ \E i \in 1..3 : times = [k \in 1..3 |-> IF k = i THEN 1 ELSE 0]
    /\ Cardinality(Broadcast(feed)) = 1

\* C33: under the chronological policy and with pairwise different original
\* publish dates, the Broadcast entries are at every moment the oldest ones:
\* each of them is older than every Pending entry. So a rebroadcast(count)
\* with count no larger than the number of entries returns no entry twice.
C33_DatePrefix ==
    LET date(i) == feed[i].entry_data.original_pubdate.t
    IN (/\ Lower(order) = "chronological"
        /\ \A i, j \in 1..Len(feed) : i # j => date(i) # date(j))
           => /\ \A b \in Broadcast(feed), e \in Eligible(feed) : date(b) < date(e)
              /\ (Returned /\ num <= Len(feed)) => NoDup(reran)

C33_Witness ==
    /\ Returned /\ order = "chronological" /\ Len(feed) = 3 /\ num = 3
    /\ OriginalDate(1) = 3 /\ OriginalDate(2) = 1 /\ OriginalDate(3) = 2
    /\ Broadcast(pre) = {2}
    /\ reran = <<1, 3, 2>>
    /\ Broadcast(feed) = {2}

\* C31: composing the feed title or the entry titles, assigning run_forever,
\* reading or writing a channel metadata key and writing the feed leave the
\* reran flag of every entry as it was; only rebroadcast (and the reset it
\* triggers) changes a flag.
C31_FlagsFrame ==
    (op \in {"set_feed_title", "set_entry_titles", "run_forever", "getitem",
             "setitem", "write"})
        => /\ Len(feed) = Len(pre)
           /\ \A i \in 1..Len(feed) : feed[i].entry_data.reran = pre[i].entry_data.reran

C31_Witness ==
    /\ op = "set_entry_titles" /\ pc = "returned"
    /\ Len(feed) = 2
    /\ Broadcast(feed) = {1} /\ Eligible(feed) = {2}
    /\ feed[1].title # pre[1].title

\* the title of an entry composed from the parts that have a text, the
\* parts without text being skipped
TitleSkipping(meta, entry) ==
    LET dt == entry.entry_data.original_pubdate.t
        dated(str) == [i \in 1..Len(str) |->
                          IF str[i] = "%b %d %Y" /\ entry.entry_data.original_pubdate # Absent
                          THEN ToString(dt) ELSE str[i]]
        part(parent, name, stamp) ==
            IF name \in DOMAIN parent /\ parent[name] # NoText
            THEN <<IF stamp THEN dated(parent[name].s) ELSE parent[name].s>>
            ELSE << >>
    IN Str(join(part(meta, "entry_title_prefix", TRUE)
                \o part(entry.entry_data, "original_title", FALSE)
                \o part(meta, "entry_title_suffix", TRUE)))

\* C37 as stated: a title part stored without text is skipped when the
\* titles are composed; set_entry_titles and the load of a written feed end
\* without error, each entry title being made of the parts that have a text.
C37_TextlessPartsSkipped ==
    (op \in {"set_entry_titles", "reload"})
        => /\ pc = "returned"
           /\ \A i \in 1..Len(feed) :
                feed[i].title = TitleSkipping(channel.channel_data, feed[i])

\* C38 as stated: the titles are recomputed from the stored original title
\* and the stored prefix and suffix, so composing them again without
\* arguments changes nothing, and a feed written with its metadata and loaded
\* again has the titles it was written with.
C38_TitlesIdempotent ==
    /\ (op = "set_feed_title" /\ pc = "returned")
          => set_feed_title(channel, NoText, NoText) = channel
    /\ (op = "set_entry_titles" /\ pc = "returned")
          => set_entry_titles(channel, feed, NoText, NoText) =
                [error |-> FALSE, channel |-> channel, feed |-> feed]
    /\ (op = "reload" /\ called.mode = "with_reruns_data")
          => /\ pc = "returned"
             /\ channel.title = called.channel.title
             /\ Len(feed) = Len(pre)
             /\ \A i \in 1..Len(feed) : feed[i].title = pre[i].title

\* C35: with run_forever true and at least one entry, under rebroadcast
\* calls with a count of at least one that never end, every Pending entry is
\* eventually Broadcast and every Broadcast entry is eventually Pending
\* again, under either ordering policy: each entry is broadcast again and
\* again.
C35_EveryEntryRecurs ==
    \A i \in UNION {1..n : n \in ForeverSizes} :
        /\ (i \in Eligible(feed)) ~> (i \in Broadcast(feed))
        /\ (i \in Broadcast(feed)) ~> (i \in Eligible(feed))

C35_Witness ==
    /\ op = "rebroadcast" /\ pc = "for" /\ order = "shuffled"
    /\ Len(feed) = 2 /\ num = 3
    /\ Broadcast(pre) = {1}
    /\ reran = <<2>>
    /\ Eligible(feed) = {1, 2}
    /\ passes[Len(passes)].reset

\* the name of the root element: its tag without the namespace, lower-cased
RootName(tag) ==
    LET close == {k \in 1..Len(tag) : tag[k] = "}"}
        last == IF close = {} THEN 0 ELSE CHOOSE k \in close : \A j \in close : j <= k
    IN str_lower(SubSeq(tag, last + 1, Len(tag)))

\* C39 as stated: from_file constructs nothing for a path that is not an
\* existing file; for a file, an explicit feed_format decides; without one
\* an extension .rss or .atom decides; without either the name of the root
\* element decides, rss or feed, and a root of another name is an error.
C39_Precedence ==
    LET rss == <<"r", "s", "s">>
        atom == <<"a", "t", "o", "m">>
        ext(x) == (<<".">> \o x) \in lower_suffixes(path)
        made(class) == concrete_subclass = Class(class)
        failed == concrete_subclass.error # "" /\ concrete_subclass.class = "none"
    IN concrete_subclass # NoOutcome =>
        IF ~path.is_file THEN failed
        ELSE IF path.root = NoValue THEN TRUE
        ELSE IF feed_format # NoValue
             THEN /\ str_lower(feed_format.s) = rss => made("RSSFeedModifier")
                  /\ str_lower(feed_format.s) = atom => made("AtomFeedModifier")
        ELSE IF ext(rss) \/ ext(atom)
             THEN /\ ~ext(atom) => made("RSSFeedModifier")
                  /\ ~ext(rss) => made("AtomFeedModifier")
                  /\ ~failed
        ELSE IF RootName(path.root.s) = rss THEN made("RSSFeedModifier")
        ELSE IF RootName(path.root.s) = <<"f", "e", "e", "d">>
             THEN made("AtomFeedModifier")
        ELSE failed

\* the metadata record of entry i of the source document, as a first load
\* seeds it
FirstLoaded(i) ==
    [original_pubdate |-> get_entry_pubdate(dialect, source.feed[i]),
     original_title |-> text_or_empty(source.feed[i].title),
     reran |-> "False"]

\* C13: after loading a document without metadata every entry has one
\* metadata record holding original_pubdate (its publish date), original_title
\* (its title, "" when the title has no text) and reran "False", so every
\* entry is eligible; and in every state each entry has that record with a
\* reran text of "True" or "False".
C13_EntryMetadata ==
    /\ op = "load" =>
            /\ \A i \in 1..Len(feed) : feed[i].entry_data = FirstLoaded(i)
            /\ Eligible(feed) = 1..Len(feed)
    /\ \A i \in 1..Len(feed) :
            /\ DOMAIN feed[i].entry_data = {"original_pubdate", "original_title", "reran"}
            /\ feed[i].entry_data.reran \in {"True", "False"}

C13_Witness ==
    /\ op = "entries_to_rerun"
    /\ Len(feed) = 2
    /\ Broadcast(pre) = {1, 2}
    /\ Eligible(feed) = {1, 2}
    /\ source.feed[1].title = NoText

\* C16: every entry's original_pubdate and original_title keep the value
\* captured at first load, under rebroadcast, set_feed_title,
\* set_entry_titles, run_forever assignments and write followed by reload.
C16_OriginalsKept ==
    \A i \in 1..Len(feed) :
        /\ feed[i].entry_data.original_pubdate = FirstLoaded(i).original_pubdate
        /\ feed[i].entry_data.original_title = FirstLoaded(i).original_title

C16_Witness ==
    /\ op = "reload" /\ pc = "returned"
    /\ called.mode = "with_reruns_data"
    /\ Len(feed) = 2
    /\ Broadcast(feed) = {1}
    /\ channel.channel_data.entry_title_prefix = Str(<<"Again:">>)
    /\ feed[1].title # source.feed[1].title
    /\ get_entry_pubdate(dialect, feed[1]) # get_entry_pubdate(dialect, source.feed[1])

\* C17: after any sequence of rebroadcast calls, writing the document with
\* metadata and loading the written document yields the same channel metadata
\* and the same metadata of every entry.
C17_RoundTrip ==
    (op = "reload" /\ called.mode = "with_reruns_data")
        => /\ pc = "returned"
           /\ channel.channel_data = called.channel.channel_data
           /\ order = called.order
           /\ run_forever = called.run_forever
           /\ Len(feed) = Len(pre)
           /\ \A i \in 1..Len(feed) : feed[i].entry_data = pre[i].entry_data

\* C18: the document write produces with with_reruns_data = False has no
\* channel_data element, no entry_data element and no declaration of the
\* reruns namespace.
C18_StrippedHasNoMetadata ==
    file.mode = "stripped"
        => /\ ~file.doc.channel_data_kept
           /\ ~file.doc.entry_data_kept
           /\ ~file.doc.reruns_declared

\* the channel with its build date elements taken from another channel
WithBuildDateOf(ch, other) ==
    [ch EXCEPT !.pubDate = other.pubDate,
               !.lastBuildDate = other.lastBuildDate,
               !.updated = other.updated]

\* C19 as stated: write with with_reruns_data = False leaves every element of
\* the document in memory with its text, the feed's build date included.
C19_StrippedWriteMutatesNothing ==
    (op = "write" /\ file.mode = "stripped")
        => feed = pre /\ channel = called.channel

\* C19, amended: write with with_reruns_data = False leaves every entry and
\* every element of the channel with its text, except the feed's build date
\* (pubDate and lastBuildDate in RSS, updated in Atom), which is set to the
\* formatted datetime of the write.
C19_StrippedWriteFrame ==
    (op = "write" /\ file.mode = "stripped")
        => /\ feed = pre
           /\ WithBuildDateOf(channel, called.channel) = called.channel
           /\ \E dt \in Times :
                IF dialect = "rss"
                THEN /\ channel.pubDate = RSS_format_datetime(dt)
                     /\ channel.lastBuildDate = RSS_format_datetime(dt)
                     /\ channel.updated = called.channel.updated
                ELSE /\ channel.updated = Atom_format_datetime(dt)
                     /\ channel.pubDate = called.channel.pubDate
                     /\ channel.lastBuildDate = called.channel.lastBuildDate

C19_Witness ==
    /\ op = "write" /\ file.mode = "stripped"
    /\ dialect = "atom"
    /\ Len(feed) = 2
    /\ Broadcast(feed) = {1}
    /\ called.channel.updated = SrcText(1)
    /\ channel.updated = Atom_format_datetime(8)

====
